---- MODULE Spec2Model ----
(***************************************************************************)
(* git-fetch-commits (src/src/main.rs): main -> extract_logs ->            *)
(* extract_from_diff.  The repository is cloned, a time-sorted revwalk is  *)
(* seeded with the head and every non-head branch tip, and every yielded   *)
(* commit is resolved, diffed against its first parent, classified per     *)
(* file / hunk / line, flattened and printed as one JSON line per file.    *)
(* libgit2 (clone, revwalk, object lookup, diff enumeration) and           *)
(* serde_json are the environment: every call that returns a Result or an  *)
(* Option may take either outcome.                                         *)
(***************************************************************************)
EXTENDS Integers, Sequences, FiniteSets, Bags, TLC

(* ------------------------------ bounds -------------------------------- *)
\* file, hunk and line events the diff engine delivers in one run
MaxEvents == 4

(* --------------------------- Option<T> -------------------------------- *)
None == [some |-> FALSE]
Some(v) == [some |-> TRUE, val |-> v]
IsSome(o) == o.some
unwrap_or(o, d) == IF o.some THEN o.val ELSE d

(* ------------------- the cloned repository (fixture) ------------------ *)
\* Object ids of the commits.  c1 is the root commit, c2 and c3 are its
\* children, c4 merges c2 and c3.
Commits == {"c1", "c2", "c3", "c4"}

\* git2::Commit as returned by find_commit: tree_id(), parent ids (ordered),
\* time().seconds(), author().name()/email(), message().
CommitObj(c) ==
  CASE c = "c1" -> [tree_id |-> "t1", parents |-> <<>>, seconds |-> 10,
                    author_name |-> Some("ann"), author_email |-> Some("ann@x"),
                    message |-> Some("root")]
    [] c = "c2" -> [tree_id |-> "t2", parents |-> <<"c1">>, seconds |-> 20,
                    author_name |-> None, author_email |-> None,
                    message |-> None]
    [] c = "c3" -> [tree_id |-> "t3", parents |-> <<"c1">>, seconds |-> 30,
                    author_name |-> Some("bob"), author_email |-> Some("bob@x"),
                    message |-> Some("side")]
    [] c = "c4" -> [tree_id |-> "t4", parents |-> <<"c2", "c3">>, seconds |-> 40,
                    author_name |-> Some("ann"), author_email |-> Some("ann@x"),
                    message |-> Some("merge")]

\* repo.branches(None): the head branch, one other branch, and a symbolic
\* reference (origin/HEAD) that has no direct target.
Branches ==
  << [is_head |-> TRUE,  target |-> Some("c2")],
     [is_head |-> FALSE, target |-> Some("c4")],
     [is_head |-> FALSE, target |-> None] >>

\* the commit HEAD resolves to (revwalk.push_head)
HeadTarget == "c2"

\* args.repo_url
RepoUrl == "https://example/repo.git"

\* paths a delta's new_file() can carry; NoPath is a path that path() /
\* to_str() cannot turn into a &str
Paths == {"a", "b"}
NoPath == "?"

(* ------------------------------ state --------------------------------- *)
VARIABLES
  pc,          \* position in main / extract_logs / extract_from_diff
  result,      \* "running", or how extract_logs ended: "Ok", "Err", "Panic"
  fault,       \* the collaborator call that failed first ("none" if none)
  exit_status, \* process exit status (-1 while running)
  stderr,      \* diagnostic stream
  stdout,      \* standard output: the JSON lines printed
  bi,          \* index of the next item of repo.branches(None)
  queue,       \* revwalk: commits pushed or inserted and not yet yielded
  seen,        \* revwalk: commits ever inserted
  pushed,      \* revwalk: the starting points pushed
  yielded,     \* ids revwalk.next() has yielded, in order
  oid,         \* Option: the id this loop iteration works on
  commit,      \* Option: find_commit(oid)
  parent_tree, \* Option: tree of the first parent
  diff,        \* Option: [old, new] handed to diff_tree_to_tree
  deltas,      \* paths of the file events delivered so far by diff.foreach
  tally,       \* per file event: the bag of hunk and line events after it
  files,       \* extract_from_diff: Vec<FileChange>
  x,           \* extract_from_diff: Cell<Option<FileChange>>
  event,       \* the event diff.foreach delivered last in this diff
  my_commit,   \* Option: the Commit record built for oid
  flat,        \* Vec<FlatCommit> of my_commit
  fi,          \* index of the next element of flat handed to the printer
  written,     \* the lines printed for the current commit
  done,        \* per finished loop iteration: what was built and printed
  used         \* number of diff events delivered so far in the run

procVars == <<pc, result, fault, exit_status, stderr>>
walkVars == <<bi, queue, seen, pushed, yielded>>
iterVars == <<oid, commit, parent_tree, diff, my_commit, flat, fi, written>>
diffVars == <<deltas, tally, files, x, event, used>>
vars == <<pc, result, fault, exit_status, stderr, stdout, bi, queue, seen,
          pushed, yielded, oid, commit, parent_tree, diff, deltas, tally, files,
          x,
          event,
          my_commit, flat, fi, written, done, used>>

(* --------------------------- pure helpers ----------------------------- *)
\* A u32 counter is held as the integer that has the same 32 bits: the values
\* 0 .. 2^31-1 are themselves, the values 2^31 .. 2^32-1 read as
\* -2^31 .. -1.  I32Max is 2^31-1 and U32Max is 4294967295.
I32Max == 2147483647
U32Max == -1

\* a < b as u32 values
U32Lt(a, b) == IF (a >= 0) = (b >= 0) THEN a < b ELSE a >= 0

\* `counter + 1` on a u32 counter, as the 32 bits come out of the addition:
\* 4294967295 + 1 is 0.  (With overflow checks compiled in, the addition panics
\* instead: see DiffHunk and DiffLine.)  The diff is made with default options
\* and the code sets no limit of its own on the number of events it counts.
u32_inc(c) == IF c = I32Max THEN (0 - I32Max) - 1 ELSE c + 1

\* the six counters of a FileChange
CounterFields ==
  {"lines_added", "lines_removed", "lines_modified",
   "hunks_added", "hunks_removed", "hunks_modified"}

\* the update from record s to record t added 1 to a counter that was at its
\* maximum
Overflows(s, t) == \E f \in CounterFields : s[f] = U32Max /\ t[f] # s[f]

\* the record the file callback opens
NewFileChange(filename) ==
  [path |-> filename, lines_added |-> 0, lines_removed |-> 0,
   lines_modified |-> 0, hunks_added |-> 0, hunks_removed |-> 0,
   hunks_modified |-> 0]

\* ClassifyHunk with the (_, 0) arm bumping the counter of the arm below it
ClassifyHunk_RemovedAsModified(state, old_lines, new_lines) ==
  IF old_lines = 0
    THEN [state EXCEPT !.hunks_added = u32_inc(state.hunks_added)]
  ELSE [state EXCEPT !.hunks_modified = u32_inc(state.hunks_modified)]

\* ClassifyHunk with the (_, 0) arm written above the (0, _) arm
ClassifyHunk_NewFirst(state, old_lines, new_lines) ==
  IF new_lines = 0
    THEN [state EXCEPT !.hunks_removed = u32_inc(state.hunks_removed)]
  ELSE IF old_lines = 0
    THEN [state EXCEPT !.hunks_added = u32_inc(state.hunks_added)]
  ELSE [state EXCEPT !.hunks_modified = u32_inc(state.hunks_modified)]

\* hunk callback: match (old_lines, new_lines)
ClassifyHunk(state, old_lines, new_lines) ==
  IF old_lines = 0
    THEN [state EXCEPT !.hunks_added = u32_inc(state.hunks_added)]
  ELSE IF new_lines = 0
    THEN [state EXCEPT !.hunks_removed = u32_inc(state.hunks_removed)]
  ELSE [state EXCEPT !.hunks_modified = u32_inc(state.hunks_modified)]

\* ClassifyLine without the (Some(_), Some(_)) arm: such a line falls through
\* to `_ => state`
ClassifyLine_NoModifiedArm(state, old_lineno, new_lineno) ==
  IF ~IsSome(old_lineno) /\ IsSome(new_lineno)
    THEN [state EXCEPT !.lines_added = u32_inc(state.lines_added)]
  ELSE IF IsSome(old_lineno) /\ ~IsSome(new_lineno)
    THEN [state EXCEPT !.lines_removed = u32_inc(state.lines_removed)]
  ELSE state

\* ClassifyLine without `..state`: the updated record keeps the path and the
\* line counters and starts its hunk counters again
ClassifyLine_FreshRecord(state, old_lineno, new_lineno) ==
  LET fresh == [state EXCEPT !.hunks_added = 0, !.hunks_removed = 0,
                             !.hunks_modified = 0]
  IN IF ~IsSome(old_lineno) /\ IsSome(new_lineno)
       THEN [fresh EXCEPT !.lines_added = u32_inc(state.lines_added)]
     ELSE IF IsSome(old_lineno) /\ ~IsSome(new_lineno)
       THEN [fresh EXCEPT !.lines_removed = u32_inc(state.lines_removed)]
     ELSE IF IsSome(old_lineno) /\ IsSome(new_lineno)
       THEN [fresh EXCEPT !.lines_modified = u32_inc(state.lines_modified)]
     ELSE fresh

\* line callback: match (old_lineno, new_lineno), both Option<u32>
ClassifyLine(state, old_lineno, new_lineno) ==
  IF ~IsSome(old_lineno) /\ IsSome(new_lineno)
    THEN [state EXCEPT !.lines_added = u32_inc(state.lines_added)]
  ELSE IF IsSome(old_lineno) /\ ~IsSome(new_lineno)
    THEN [state EXCEPT !.lines_removed = u32_inc(state.lines_removed)]
  ELSE IF IsSome(old_lineno) /\ IsSome(new_lineno)
    THEN [state EXCEPT !.lines_modified = u32_inc(state.lines_modified)]
  ELSE state

\* what extract_from_diff returns once diff.foreach has returned Ok
ReturnedFiles(fs, cell) == fs

\* oid.to_string(): the hexadecimal form of the object id
OidToString(c) ==
  CASE c = "c1" -> "1f00" [] c = "c2" -> "2e00"
    [] c = "c3" -> "3d00" [] c = "c4" -> "4c00"

\* default_commit
DefaultCommit(c, obj) ==
  [id |-> OidToString(c),
   type |-> "Normal",
   repo_url |-> RepoUrl,
   timestamp |-> obj.seconds,
   author_name |-> unwrap_or(obj.author_name, "unknown"),
   author_email |-> unwrap_or(obj.author_email, "unknown"),
   message |-> unwrap_or(obj.message, "unknown"),
   changes |-> <<>>]

\* ParentTreeId with the parent lookup lost: every diff is against no tree
ParentTreeId_NoParent(obj) == None

\* parent_commit: None for the origin commit, else the first parent's tree id
ParentTreeId(obj) ==
  IF Len(obj.parents) = 0 THEN None
  ELSE Some(CommitObj(obj.parents[1]).tree_id)

\* IsMerge with the comparison off by one
IsMerge_OffByOne(obj) == Len(obj.parents) > 2

\* commit.parent_count() > 1
IsMerge(obj) == Len(obj.parents) > 1

\* my_commit.changes.iter().map(|change| FlatCommit {..}).collect()
MakeFlat(c, change) ==
  [id |-> c.id, type |-> c.type, repo_url |-> c.repo_url,
   timestamp |-> c.timestamp, author_name |-> c.author_name,
   author_email |-> c.author_email, message |-> c.message,
   path |-> change.path,
   lines_added |-> change.lines_added,
   lines_removed |-> change.lines_removed,
   lines_modified |-> change.lines_modified,
   hunks_added |-> change.hunks_added,
   hunks_removed |-> change.hunks_removed,
   hunks_modified |-> change.hunks_modified]

Flatten(c) == [i \in 1..Len(c.changes) |-> MakeFlat(c, c.changes[i])]

\* serde_json::to_string(&f): a JSON object, the fields in declaration order,
\* the unit variants of CommitType as their names
to_string(f) ==
  << <<"id", f.id>>, <<"repo_url", f.repo_url>>, <<"timestamp", f.timestamp>>,
     <<"author_name", f.author_name>>, <<"author_email", f.author_email>>,
     <<"message", f.message>>, <<"type", f.type>>, <<"path", f.path>>,
     <<"lines_added", f.lines_added>>, <<"lines_removed", f.lines_removed>>,
     <<"lines_modified", f.lines_modified>>, <<"hunks_added", f.hunks_added>>,
     <<"hunks_removed", f.hunks_removed>>,
     <<"hunks_modified", f.hunks_modified>> >>

\* the value of key k in a printed line
Field(line, k) == line[CHOOSE i \in 1..Len(line) : line[i][1] = k][2]

\* no event delivered yet in this diff
NoEvent == [kind |-> "none"]

(* ------------------------------- Init --------------------------------- *)
Init ==
  /\ pc = "clone"
  /\ result = "running"
  /\ fault = "none"
  /\ exit_status = -1
  /\ stderr = <<>>
  /\ stdout = <<>>
  /\ bi = 1
  /\ queue = {}
  /\ seen = {}
  /\ pushed = {}
  /\ yielded = <<>>
  /\ oid = None
  /\ commit = None
  /\ parent_tree = None
  /\ diff = None
  /\ deltas = <<>>
  /\ tally = <<>>
  /\ files = <<>>
  /\ x = None
  /\ event = NoEvent
  /\ my_commit = None
  /\ flat = <<>>
  /\ fi = 1
  /\ written = <<>>
  /\ done = <<>>
  /\ used = 0

(* ---------------------- how extract_logs ends ------------------------- *)
\* the locals of the loop body and of extract_from_diff are dropped
DropLocals ==
  /\ oid' = None
  /\ commit' = None
  /\ parent_tree' = None
  /\ diff' = None
  /\ my_commit' = None
  /\ flat' = <<>>
  /\ fi' = 1
  /\ written' = <<>>
  /\ deltas' = <<>>
  /\ tally' = <<>>
  /\ files' = <<>>
  /\ x' = None
  /\ event' = NoEvent

\* `?` on an Err: extract_logs returns Err(e) to main
ReturnErr(op) ==
  /\ pc' = "returned"
  /\ result' = "Err"
  /\ fault' = IF fault = "none" THEN op ELSE fault
  /\ UNCHANGED <<exit_status, stderr, stdout, done, used>>

\* unwrap() on a None / Err: the thread panics, the runtime prints the panic
\* message and the process exits with status 101
Panic(op) ==
  /\ pc' = "exited"
  /\ result' = "Panic"
  /\ fault' = IF fault = "none" THEN op ELSE fault
  /\ exit_status' = 101
  /\ stderr' = Append(stderr, "panicked")
  /\ UNCHANGED <<stdout, done, used>>

(* ------------------- extract_logs: clone and revwalk ------------------ *)
\* tempdir() and builder.clone(): a transport / auth failure is an Err
Clone ==
  /\ pc = "clone"
  /\ \E ok \in BOOLEAN :
       IF ok
         THEN /\ pc' = "push_head"
              /\ UNCHANGED <<result, fault, exit_status, stderr, stdout, done,
                             used, iterVars, deltas, tally, files,
                             x, event>>
         ELSE ReturnErr("clone") /\ DropLocals
  /\ UNCHANGED walkVars

\* repo.revwalk()?, set_sorting(Sort::TIME)?, push_head()?, repo.branches(None)?
PushHead ==
  /\ pc = "push_head"
  /\ \E ok \in BOOLEAN :
       IF ok
         THEN /\ pc' = "branches"
              /\ queue' = queue \cup {HeadTarget}
              /\ seen' = seen \cup {HeadTarget}
              /\ pushed' = pushed \cup {HeadTarget}
              /\ UNCHANGED <<result, fault, exit_status, stderr, stdout, done,
                             used, iterVars, deltas, tally, files,
                             x, event>>
         ELSE /\ ReturnErr("push_head") /\ DropLocals
              /\ UNCHANGED <<queue, seen, pushed>>
  /\ UNCHANGED <<bi, yielded>>

\* the starting points the branch item contributes: an Err item, the head
\* branch and a branch without a target are passed over
BranchTips(item_ok, b) ==
  IF item_ok /\ ~b.is_head /\ IsSome(b.target) THEN {b.target.val} ELSE {}

\* one turn of `for branch_r in branches`; revwalk.push(target)? may fail
PushBranch ==
  /\ pc = "branches"
  /\ bi <= Len(Branches)
  /\ \E item_ok \in BOOLEAN, push_ok \in BOOLEAN :
       LET tips == BranchTips(item_ok, Branches[bi]) IN
       IF tips = {} \/ push_ok
         THEN /\ queue' = queue \cup (tips \ seen)
              /\ seen' = seen \cup tips
              /\ pushed' = pushed \cup tips
              /\ bi' = bi + 1
              /\ pc' = IF bi + 1 > Len(Branches) THEN "next" ELSE "branches"
              /\ UNCHANGED <<result, fault, exit_status, stderr, stdout, done,
                             used, iterVars, deltas, tally, files,
                             x, event>>
         ELSE /\ ReturnErr("push") /\ DropLocals
              /\ UNCHANGED <<queue, seen, pushed, bi>>
  /\ UNCHANGED yielded

(* ----------------------- extract_logs: the loop ----------------------- *)
\* Sort::TIME: the pending commit with the latest commit time
Latest(q) ==
  CHOOSE c \in q : \A d \in q : CommitObj(c).seconds >= CommitObj(d).seconds

\* the parents the walk inserts when it yields c: those it has not seen
Unseen(c) == {CommitObj(c).parents[i] : i \in 1..Len(CommitObj(c).parents)} \ seen

\* `while let Some(Ok(oid)) = revwalk.next()`: Some(Ok(oid)) enters the body;
\* None and Some(Err(_)) both leave the loop, and extract_logs returns Ok(())
WalkNext ==
  /\ pc = "next"
  /\ \E item_ok \in BOOLEAN :
       IF queue # {} /\ item_ok
         THEN LET c == Latest(queue) IN
              /\ queue' = (queue \ {c}) \cup Unseen(c)
              /\ seen' = seen \cup Unseen(c)
              /\ yielded' = Append(yielded, c)
              /\ oid' = Some(c)
              /\ pc' = "find_commit"
              /\ UNCHANGED <<result, fault, exit_status, stderr, stdout, done,
                             used, commit, parent_tree, diff, my_commit, flat,
                             fi, written, deltas, tally, files,
                             x, event>>
         ELSE /\ pc' = "returned"
              /\ result' = "Ok"
              /\ fault' = IF queue # {} /\ fault = "none" THEN "walk" ELSE fault
              /\ UNCHANGED <<exit_status, stderr, stdout, done, used, queue,
                             seen, yielded, iterVars, deltas, tally, files,
                             x, event>>
  /\ UNCHANGED <<bi, pushed>>

\* repo.find_commit(oid)?
FindCommit ==
  /\ pc = "find_commit"
  /\ \E ok \in BOOLEAN :
       IF ok
         THEN /\ commit' = Some(CommitObj(oid.val))
              /\ pc' = "find_tree"
              /\ UNCHANGED <<result, fault, exit_status, stderr, stdout, done,
                             used, oid, parent_tree, diff, my_commit, flat, fi,
                             written, deltas, tally, files,
                             x, event>>
         ELSE ReturnErr("find_commit") /\ DropLocals
  /\ UNCHANGED walkVars

\* repo.find_tree(commit.tree_id()).unwrap()
FindTree ==
  /\ pc = "find_tree"
  /\ \E ok \in BOOLEAN :
       IF ok
         THEN /\ pc' = "parent"
              /\ UNCHANGED <<result, fault, exit_status, stderr, stdout, done,
                             used, iterVars, deltas, tally, files,
                             x, event>>
         ELSE Panic("find_tree") /\ DropLocals
  /\ UNCHANGED walkVars

\* parent_commit / parent_tree: commit.parent(0).unwrap() and
\* repo.find_tree(oid).unwrap() run for every commit that has a parent
ParentTree ==
  /\ pc = "parent"
  /\ \E ok \in BOOLEAN :
       IF Len(commit.val.parents) = 0 \/ ok
         THEN /\ parent_tree' = ParentTreeId(commit.val)
              /\ pc' = "build"
              /\ UNCHANGED <<result, fault, exit_status, stderr, stdout, done,
                             used, oid, commit, diff, my_commit, flat, fi,
                             written, deltas, tally, files,
                             x, event>>
         ELSE Panic("parent") /\ DropLocals
  /\ UNCHANGED walkVars

\* parent_count() > 1: Commit { type: Merge, ..default_commit }
MergeCommit ==
  /\ pc = "build"
  /\ IsMerge(commit.val)
  /\ my_commit' = Some([DefaultCommit(oid.val, commit.val) EXCEPT !.type = "Merge"])
  /\ pc' = "flatten"
  /\ UNCHANGED <<result, fault, exit_status, stderr, stdout, done, used, oid,
                 commit, parent_tree, diff, flat, fi, written, deltas, tally,
                 files, x, event>>
  /\ UNCHANGED walkVars

\* else: repo.diff_tree_to_tree(parent_tree.as_ref(), Some(&commit_tree), None)?
DiffTreeToTree ==
  /\ pc = "build"
  /\ ~IsMerge(commit.val)
  /\ \E ok \in BOOLEAN :
       IF ok
         THEN /\ diff' = Some([old |-> parent_tree,
                               new |-> Some(commit.val.tree_id)])
              /\ pc' = "foreach"
              /\ UNCHANGED <<result, fault, exit_status, stderr, stdout, done,
                             used, oid, commit, parent_tree, my_commit, flat,
                             fi, written, deltas, tally, files,
                             x, event>>
         ELSE ReturnErr("diff") /\ DropLocals
  /\ UNCHANGED walkVars

(* ------------------ extract_from_diff: diff.foreach ------------------- *)
\* DiffFile without files.push(file_change): the record that was open is
\* replaced and lost
DiffFile_DropsPrevious ==
  /\ pc = "foreach"
  /\ used < MaxEvents
  /\ \E p \in Paths \cup {NoPath} :
       IF p # NoPath
         THEN /\ files' = files
              /\ x' = Some(NewFileChange(p))
              /\ deltas' = Append(deltas, p)
              /\ tally' = Append(tally, EmptyBag)
              /\ event' = [kind |-> "file", path |-> p]
              /\ used' = used + 1
              /\ UNCHANGED <<pc, result, fault, exit_status, stderr, stdout,
                             done, iterVars>>
         ELSE Panic("path") /\ DropLocals
  /\ UNCHANGED walkVars

\* file callback: x.take(), push the record that was open, open a new one.
\* path().unwrap().to_str().unwrap() panics on a path that is no &str.
DiffFile ==
  /\ pc = "foreach"
  /\ used < MaxEvents
  /\ \E p \in Paths \cup {NoPath} :
       IF p # NoPath
         THEN /\ files' = IF IsSome(x) THEN Append(files, x.val) ELSE files
              /\ x' = Some(NewFileChange(p))
              /\ deltas' = Append(deltas, p)
              /\ tally' = Append(tally, EmptyBag)
              /\ event' = [kind |-> "file", path |-> p]
              /\ used' = used + 1
              /\ UNCHANGED <<pc, result, fault, exit_status, stderr, stdout,
                             done, iterVars>>
         ELSE Panic("path") /\ DropLocals
  /\ UNCHANGED walkVars

\* DiffHunk with x.take().unwrap_or(<an empty record>): a hunk event with no
\* open record counts on a fresh one instead of panicking
DiffHunk_Lenient ==
  /\ pc = "foreach"
  /\ used < MaxEvents
  /\ \E old_lines \in 0..1, new_lines \in 0..1 :
       /\ x' = Some(ClassifyHunk(unwrap_or(x, NewFileChange(NoPath)),
                                 old_lines, new_lines))
       /\ event' = [kind |-> "hunk", old_lines |-> old_lines,
                     new_lines |-> new_lines]
       /\ tally' = <<SetToBag({event'})>>
       /\ used' = used + 1
       /\ UNCHANGED <<pc, result, fault, exit_status, stderr, stdout,
                      done, iterVars, deltas, files>>
  /\ UNCHANGED walkVars

\* hunk callback: x.take().unwrap(), classify, x.set(Some(updated)).
\* `+ 1` on a counter at its maximum panics in a build with overflow checks
\* (the dev profile) and wraps in a build without (the release profile).
DiffHunk ==
  /\ pc = "foreach"
  /\ used < MaxEvents
  /\ \E old_lines \in 0..1, new_lines \in 0..1, overflow_checks \in BOOLEAN :
       IF /\ IsSome(x)
          /\ ~(/\ overflow_checks
               /\ Overflows(x.val, ClassifyHunk(x.val, old_lines, new_lines)))
         THEN /\ x' = Some(ClassifyHunk(x.val, old_lines, new_lines))
              /\ event' = [kind |-> "hunk", old_lines |-> old_lines,
                            new_lines |-> new_lines]
              /\ tally' = [tally EXCEPT ![Len(tally)] = @ (+) SetToBag({event'})]
              /\ used' = used + 1
              /\ UNCHANGED <<pc, result, fault, exit_status, stderr, stdout,
                             done, iterVars, deltas, files>>
         ELSE /\ Panic(IF IsSome(x) THEN "overflow" ELSE "no_open_record")
              /\ DropLocals
  /\ UNCHANGED walkVars

\* line callback: x.take().unwrap(), classify, x.set(Some(updated)); `+ 1` as
\* in the hunk callback
DiffLine ==
  /\ pc = "foreach"
  /\ used < MaxEvents
  /\ \E old_lineno \in {None, Some(1)}, new_lineno \in {None, Some(1)},
        overflow_checks \in BOOLEAN :
       IF /\ IsSome(x)
          /\ ~(/\ overflow_checks
               /\ Overflows(x.val, ClassifyLine(x.val, old_lineno, new_lineno)))
         THEN /\ x' = Some(ClassifyLine(x.val, old_lineno, new_lineno))
              /\ event' = [kind |-> "line", old_lineno |-> old_lineno,
                            new_lineno |-> new_lineno]
              /\ tally' = [tally EXCEPT ![Len(tally)] = @ (+) SetToBag({event'})]
              /\ used' = used + 1
              /\ UNCHANGED <<pc, result, fault, exit_status, stderr, stdout,
                             done, iterVars, deltas, files>>
         ELSE /\ Panic(IF IsSome(x) THEN "overflow" ELSE "no_open_record")
              /\ DropLocals
  /\ UNCHANGED walkVars

\* diff.foreach(..)? returns: Err goes to the caller; on Ok extract_from_diff
\* returns Ok(files) and the loop builds Commit { changes: file_changes, .. }
ForeachReturn ==
  /\ pc = "foreach"
  /\ \E ok \in BOOLEAN :
       IF ok
         THEN /\ my_commit' = Some([DefaultCommit(oid.val, commit.val)
                                      EXCEPT !.changes = ReturnedFiles(files, x)])
              /\ pc' = "flatten"
              /\ UNCHANGED <<result, fault, exit_status, stderr, stdout, done,
                             used, oid, commit, parent_tree, diff, flat, fi,
                             written, deltas, tally, files,
                             x, event>>
         ELSE ReturnErr("foreach") /\ DropLocals
  /\ UNCHANGED walkVars

(* ------------------- extract_logs: flatten and print ------------------ *)
\* let flat: Vec<FlatCommit> = my_commit.changes.iter().map(..).collect()
FlattenCommit ==
  /\ pc = "flatten"
  /\ flat' = Flatten(my_commit.val)
  /\ fi' = 1
  /\ pc' = "emit"
  /\ UNCHANGED <<result, fault, exit_status, stderr, stdout, done, used, oid,
                 commit, parent_tree, diff, my_commit, written, deltas, tally,
                 files, x, event>>
  /\ UNCHANGED walkVars

\* ForEachFinished off by one: the iteration stops before the last element
ForEachFinished_Early(i, fl) == i >= Len(fl)

\* flat.iter().for_each has handed every element to the closure
\* ForEachFinished that never holds: the iteration over flat has no end
ForEachFinished_Never(i, fl) == i > Len(fl) + 1

ForEachFinished(i, fl) == i > Len(fl)

\* EmitLine with `?` on the serialization result: a failure returns Err from
\* extract_logs in the middle of the commit's records
EmitLine_Fatal ==
  /\ pc = "emit"
  /\ fi <= Len(flat)
  /\ \E ser_ok \in BOOLEAN :
       IF ser_ok
         THEN /\ stdout' = Append(stdout, to_string(flat[fi]))
              /\ written' = Append(written, to_string(flat[fi]))
              /\ fi' = fi + 1
              /\ UNCHANGED <<pc, result, fault, exit_status, stderr, done,
                             used, oid, commit, parent_tree, diff, my_commit,
                             flat, deltas, tally, files, x, event>>
         ELSE /\ pc' = "returned"
              /\ result' = "Err"
              /\ fault' = "serde"
              /\ UNCHANGED <<exit_status, stderr, stdout, done, used>>
              /\ DropLocals
  /\ UNCHANGED walkVars

\* the for_each closure on flat[fi]: println! when to_string returned Ok,
\* nothing otherwise
EmitLine ==
  /\ pc = "emit"
  /\ fi <= Len(flat)
  /\ \E ser_ok \in BOOLEAN :
       /\ stdout' = IF ser_ok THEN Append(stdout, to_string(flat[fi])) ELSE stdout
       /\ written' = IF ser_ok THEN Append(written, to_string(flat[fi])) ELSE written
  /\ fi' = fi + 1
  /\ UNCHANGED <<pc, result, fault, exit_status, stderr, done, used, oid,
                 commit, parent_tree, diff, my_commit, flat, deltas, tally,
                 files, x, event>>
  /\ UNCHANGED walkVars

\* end of the loop body: its locals are dropped, control goes back to
\* revwalk.next()
EndIteration ==
  /\ pc = "emit"
  /\ ForEachFinished(fi, flat)
  /\ done' = Append(done, [oid |-> oid.val, commit |-> my_commit.val,
                           diff |-> diff, deltas |-> deltas,
                           returned |-> ReturnedFiles(files, x),
                           flat |-> flat, handed |-> fi - 1,
                           written |-> written])
  /\ pc' = "next"
  /\ DropLocals
  /\ UNCHANGED <<result, fault, exit_status, stderr, stdout, used>>
  /\ UNCHANGED walkVars

(* -------------------------------- main -------------------------------- *)
\* match extract_logs(&args) { Ok(()) => {}, Err(e) => eprintln!(..) }; ()
MainMatch ==
  /\ pc = "returned"
  /\ stderr' = IF result = "Err" THEN Append(stderr, "Err") ELSE stderr
  /\ exit_status' = 0
  /\ pc' = "exited"
  /\ UNCHANGED <<result, fault, stdout, done, used, iterVars, deltas, tally,
                 files, x, event>>
  /\ UNCHANGED walkVars

Next ==
  \/ Clone
  \/ PushHead
  \/ PushBranch
  \/ WalkNext
  \/ FindCommit
  \/ FindTree
  \/ ParentTree
  \/ MergeCommit
  \/ DiffTreeToTree
  \/ DiffFile
  \/ DiffHunk
  \/ DiffLine
  \/ ForeachReturn
  \/ FlattenCommit
  \/ EmitLine
  \/ EndIteration
  \/ MainMatch

Spec == Init /\ [][Next]_vars

\* the process is scheduled: a step that can be taken is taken
FairSpec == Spec /\ WF_vars(Next)

(* ------------ extract_from_diff on counters near their maximum --------- *)
\* values a counter holds late in a long enumeration
NearMax == {0, U32Max - 1, U32Max}

\* extract_from_diff in the middle of the diff of the first yielded commit
\* (only the head was pushed), after a file event for path p and so many hunk
\* and line events that the hunk counters stand at h and the line counters at
\* l; `used` counts the events delivered from here on
InitNearMax ==
  /\ pc = "foreach"
  /\ result = "running"
  /\ fault = "none"
  /\ exit_status = -1
  /\ stderr = <<>>
  /\ stdout = <<>>
  /\ bi = Len(Branches) + 1
  /\ pushed = {HeadTarget}
  /\ seen = {HeadTarget} \cup
            {CommitObj(HeadTarget).parents[i] :
               i \in 1..Len(CommitObj(HeadTarget).parents)}
  /\ queue = seen \ {HeadTarget}
  /\ yielded = <<HeadTarget>>
  /\ oid = Some(HeadTarget)
  /\ commit = Some(CommitObj(HeadTarget))
  /\ parent_tree = ParentTreeId(CommitObj(HeadTarget))
  /\ diff = Some([old |-> parent_tree,
                  new |-> Some(CommitObj(HeadTarget).tree_id)])
  /\ \E p \in Paths, h \in NearMax, l \in NearMax :
       /\ deltas = <<p>>
       /\ tally = <<EmptyBag>>
       /\ x = Some([path |-> p, lines_added |-> l, lines_removed |-> l,
                    lines_modified |-> l, hunks_added |-> h,
                    hunks_removed |-> h, hunks_modified |-> h])
  /\ files = <<>>
  /\ event = [kind |-> "line", old_lineno |-> None, new_lineno |-> None]
  /\ my_commit = None
  /\ flat = <<>>
  /\ fi = 1
  /\ written = <<>>
  /\ done = <<>>
  /\ used = 0

\* the callbacks of diff.foreach and its return
NextNearMax ==
  \/ DiffFile
  \/ DiffHunk
  \/ DiffLine
  \/ ForeachReturn

SpecNearMax == InitNearMax /\ [][NextNearMax]_vars

(* ================================ claims ============================== *)
\* the paths of a list of FileChange records are exactly ps, in order
SamePaths(changes, ps) ==
  /\ Len(changes) = Len(ps)
  /\ \A i \in 1..Len(changes) : changes[i].path = ps[i]

\* number of parents of commit c in the repository
ParentCount(c) == Len(CommitObj(c).parents)

\* the lines of standard output that carry commit id `id`
LinesOf(id) == {i \in 1..Len(stdout) : Field(stdout[i], "id") = id}

\* C1: the list extract_from_diff returns has one record per file event of the
\* diff, the i-th record carrying the path of the i-th file event, the record
\* of the last file event included.
C1_OneRecordPerFileEvent ==
  /\ (pc \in {"flatten", "emit"} /\ IsSome(diff))
       => SamePaths(my_commit.val.changes, deltas)
  /\ \A k \in 1..Len(done) :
       IsSome(done[k].diff) => SamePaths(done[k].commit.changes, done[k].deltas)

\* C2: a finished Normal commit whose diff delivered k file events has exactly
\* k lines on standard output, the i-th carrying the commit's own id, repo_url,
\* timestamp, author, message and type and the path of the i-th file event.
C2_OneLinePerTouchedFile ==
  \A k \in 1..Len(done) :
    LET d == done[k] IN
    d.commit.type = "Normal" =>
      /\ Len(d.written) = Len(d.deltas)
      /\ Cardinality(LinesOf(OidToString(d.oid))) = Len(d.deltas)
      /\ \A i \in 1..Len(d.written) :
           /\ Field(d.written[i], "id") = OidToString(d.oid)
           /\ Field(d.written[i], "repo_url") = RepoUrl
           /\ Field(d.written[i], "timestamp") = CommitObj(d.oid).seconds
           /\ Field(d.written[i], "author_name")
                = unwrap_or(CommitObj(d.oid).author_name, "unknown")
           /\ Field(d.written[i], "author_email")
                = unwrap_or(CommitObj(d.oid).author_email, "unknown")
           /\ Field(d.written[i], "message")
                = unwrap_or(CommitObj(d.oid).message, "unknown")
           /\ Field(d.written[i], "type") = "Normal"
           /\ Field(d.written[i], "path") = d.deltas[i]

\* C3: a visited commit with two or more parents gets type Merge and an empty
\* changes list, no diff is made and no diff event is delivered for it, and no
\* line of standard output carries its id.
C3_MergeHasNoChanges ==
  /\ (IsSome(oid) /\ ParentCount(oid.val) >= 2) =>
       /\ ~IsSome(diff)
       /\ deltas = <<>> /\ files = <<>> /\ ~IsSome(x)
       /\ pc # "foreach"
       /\ IsSome(my_commit) =>
            (my_commit.val.type = "Merge" /\ my_commit.val.changes = <<>>)
       /\ pc = "emit" => flat = <<>>
  /\ \A k \in 1..Len(done) :
       ParentCount(done[k].oid) >= 2 =>
         /\ done[k].commit.type = "Merge"
         /\ done[k].commit.changes = <<>>
         /\ ~IsSome(done[k].diff)
         /\ done[k].deltas = <<>>
         /\ done[k].written = <<>>
  /\ \A c \in Commits : ParentCount(c) >= 2 => LinesOf(OidToString(c)) = {}

\* a merge commit has been processed to the end of its loop iteration, in a
\* run that goes on to print the lines of another commit
C3_Witness ==
  /\ \E k \in 1..Len(done) : done[k].oid = "c4" /\ done[k].commit.type = "Merge"
  /\ stdout # <<>>

\* C4: a visited commit with zero or one parent gets type Normal, its diff has
\* the first parent's tree as old side (none for a commit without parent) and
\* the commit's own tree as new side, and its changes are the list the
\* classifier returned for that diff.
ExpectedOld(c) ==
  IF ParentCount(c) = 0 THEN None
  ELSE Some(CommitObj(CommitObj(c).parents[1]).tree_id)

C4_NormalDiffsFirstParent ==
  /\ (IsSome(oid) /\ ParentCount(oid.val) <= 1) =>
       /\ pc \in {"foreach", "flatten", "emit"} =>
            /\ IsSome(diff)
            /\ diff.val.old = ExpectedOld(oid.val)
            /\ diff.val.new = Some(CommitObj(oid.val).tree_id)
       /\ IsSome(my_commit) =>
            /\ my_commit.val.type = "Normal"
            /\ my_commit.val.changes = ReturnedFiles(files, x)
  /\ \A k \in 1..Len(done) :
       ParentCount(done[k].oid) <= 1 =>
         /\ done[k].commit.type = "Normal"
         /\ IsSome(done[k].diff)
         /\ done[k].diff.val.old = ExpectedOld(done[k].oid)
         /\ done[k].diff.val.new = Some(CommitObj(done[k].oid).tree_id)
         /\ done[k].commit.changes = done[k].returned

\* the root commit and a one-parent commit have both been processed, the
\* one-parent commit with a non-empty list of changes
C4_Witness ==
  \E j, k \in 1..Len(done) :
    /\ done[j].oid = "c2" /\ done[j].commit.changes # <<>>
    /\ done[j].diff.val.old = Some("t1")
    /\ done[k].oid = "c1" /\ done[k].diff.val.old = None

\* C5: a failure of the walker to yield, or a failure to resolve the commit,
\* its tree, its parent's tree or its diff, aborts the traversal at that
\* identifier, leaves no record and no line of that commit, and the run ends in
\* an error outcome, never in a success outcome.
C5_ResolutionFailureIsFatal ==
  fault \in {"walk", "find_commit", "find_tree", "parent", "diff"} =>
    /\ pc \in {"returned", "exited"}
    /\ result \in {"Err", "Panic"}
    /\ fault # "walk" =>
         /\ Len(done) = Len(yielded) - 1
         /\ LinesOf(OidToString(yielded[Len(yielded)])) = {}

\* C6: when the process has exited, its status is non-zero and the diagnostic
\* stream holds the error if a fatal condition occurred during the run, and its
\* status is zero if none occurred.
C6_ExitStatusReportsFatal ==
  pc = "exited" =>
    /\ fault # "none" => (exit_status # 0 /\ stderr # <<>>)
    /\ fault = "none" => exit_status = 0

\* C7: a hunk event on an open record raises exactly one of hunks_added,
\* hunks_removed, hunks_modified by exactly 1 and leaves the other two as they
\* were: hunks_added when the old-side count is 0, otherwise hunks_removed when
\* the new-side count is 0, otherwise hunks_modified.
C7_HunkCountsOnce ==
  [][(event'.kind = "hunk" /\ used' = used + 1) =>
       /\ IsSome(x) /\ IsSome(x')
       /\ LET da == x'.val.hunks_added - x.val.hunks_added
              dr == x'.val.hunks_removed - x.val.hunks_removed
              dm == x'.val.hunks_modified - x.val.hunks_modified
              o == event'.old_lines
              n == event'.new_lines
          IN /\ {da, dr, dm} \subseteq {0, 1}
             /\ da + dr + dm = 1
             /\ o = 0 => da = 1
             /\ (o # 0 /\ n = 0) => dr = 1
             /\ (o # 0 /\ n # 0) => dm = 1]_vars

\* a hunk with old-side lines and no new-side lines has been counted on the
\* open record
C7_Witness ==
  /\ event.kind = "hunk" /\ event.old_lines = 1 /\ event.new_lines = 0
  /\ IsSome(x) /\ x.val.hunks_removed = 1

\* C8: a line event on an open record raises lines_added by 1 (old absent, new
\* present), lines_removed by 1 (old present, new absent) or lines_modified by
\* 1 (both present); with both absent the record is unchanged and the
\* enumeration goes on without an error.  No other line counter and no hunk
\* counter changes.
C8_LineCountsOnce ==
  [][(event'.kind = "line" /\ used' = used + 1) =>
       /\ IsSome(x) /\ IsSome(x')
       /\ LET s == x.val
              t == x'.val
              o == IsSome(event'.old_lineno)
              n == IsSome(event'.new_lineno)
          IN /\ (~o /\ n) => t = [s EXCEPT !.lines_added = s.lines_added + 1]
             /\ (o /\ ~n) => t = [s EXCEPT !.lines_removed = s.lines_removed + 1]
             /\ (o /\ n) => t = [s EXCEPT !.lines_modified = s.lines_modified + 1]
             /\ (~o /\ ~n) => t = s
             /\ pc' = "foreach" /\ result' = "running" /\ fault' = fault]_vars

\* a line with both numbers present was counted, and then a line with neither
\* number was delivered to the same record
C8_Witness ==
  /\ event.kind = "line"
  /\ ~IsSome(event.old_lineno) /\ ~IsSome(event.new_lineno)
  /\ IsSome(x) /\ x.val.lines_modified = 1
  /\ pc = "foreach"

\* the lines of a sequence of finished loop iterations, in order
RECURSIVE LinesWritten(_)
LinesWritten(ds) ==
  IF ds = <<>> THEN <<>>
  ELSE LinesWritten(SubSeq(ds, 1, Len(ds) - 1)) \o ds[Len(ds)].written

\* C9: commits are processed one at a time in the order the walker yields
\* them: standard output is the lines of the first yielded commit, then those
\* of the second, and so on, then those of the commit in progress; and the
\* walker is asked for the next identifier only when every yielded commit has
\* been diffed, flattened and had every flat record handed to the printer.
C9_OneCommitAtATime ==
  /\ stdout = LinesWritten(done) \o written
  /\ Len(done) <= Len(yielded)
  /\ \A k \in 1..Len(done) :
       /\ done[k].oid = yielded[k]
       /\ done[k].flat = Flatten(done[k].commit)
       /\ done[k].handed = Len(done[k].flat)
       /\ \A i \in 1..Len(done[k].written) :
            Field(done[k].written[i], "id") = OidToString(yielded[k])
  /\ \A i \in 1..Len(written) :
       /\ Len(yielded) = Len(done) + 1
       /\ Field(written[i], "id") = OidToString(yielded[Len(yielded)])
  /\ pc = "next" => Len(done) = Len(yielded)
  /\ IsSome(oid) => (Len(yielded) = Len(done) + 1 /\ oid.val = yielded[Len(yielded)])

\* lines of two different commits are on standard output
C9_Witness ==
  \E i, j \in 1..Len(stdout) :
    i < j /\ Field(stdout[i], "id") # Field(stdout[j], "id")

\* the commits reachable from a set of starting points
RECURSIVE Reachable(_)
Reachable(S) ==
  LET T == S \cup UNION {{CommitObj(c).parents[i] : i \in 1..ParentCount(c)} : c \in S}
  IN IF T = S THEN S ELSE Reachable(T)

\* the head and the tip of every non-head branch that has one
AllTips ==
  {HeadTarget} \cup
  {Branches[i].target.val :
     i \in {j \in 1..Len(Branches) :
              ~Branches[j].is_head /\ IsSome(Branches[j].target)}}

\* C10: with the head and every non-head branch tip pushed, no commit is
\* visited twice, only reachable commits are visited, no (commit id, path)
\* pair is printed twice, and a run that ends without an error has visited
\* every reachable commit.
C10_EachReachableCommitOnce ==
  /\ \A i, j \in 1..Len(yielded) : i # j => yielded[i] # yielded[j]
  /\ \A i \in 1..Len(yielded) : yielded[i] \in Reachable(pushed)
  /\ \A i, j \in 1..Len(stdout) :
       i # j => ~(/\ Field(stdout[i], "id") = Field(stdout[j], "id")
                  /\ Field(stdout[i], "path") = Field(stdout[j], "path"))
  /\ (pushed = AllTips /\ result = "Ok") =>
       {yielded[i] : i \in 1..Len(yielded)} = Reachable(pushed)

\* C11: during the classification of a diff no counter of the open record ever
\* takes a value lower than the one it held before the event, also when the
\* counter is incremented at the maximum of its 32 bits; and the records
\* already in the list keep their values.
C11_CountersOnlyGrow ==
  [][(pc = "foreach" /\ pc' = "foreach") =>
       /\ (IsSome(x) /\ IsSome(x') /\ deltas' = deltas) =>
            \A f \in CounterFields : ~U32Lt(x'.val[f], x.val[f])
       /\ \A i \in 1..Len(files) : files'[i] = files[i]]_vars

\* C12: a hunk or line event that arrives while no record is open is fatal.
\* The run has then panicked and exited with no record, no list and no commit
\* value left, so classification never reaches a normal result; and from a
\* state with no open record the only step that opens one is a file event,
\* with all six counters at 0.
C12_NoOpenRecordIsFatal ==
  /\ [](fault = "no_open_record" =>
          /\ pc = "exited" /\ result = "Panic" /\ exit_status = 101
          /\ ~IsSome(x) /\ files = <<>> /\ my_commit = None)
  /\ [][(pc = "foreach" /\ ~IsSome(x)) =>
          /\ IsSome(x') =>
               /\ event'.kind = "file"
               /\ x'.val = NewFileChange(event'.path)
          /\ fault' = "no_open_record" =>
               /\ stdout' = stdout /\ done' = done
               /\ pc' = "exited"]_vars

\* a run panicked on a hunk or line event that found no open record
C12_Witness ==
  /\ fault = "no_open_record"
  /\ pc = "exited"
  /\ result = "Panic"

\* C13: when the serialization of a flat record fails, the failure is logged
\* on standard error and that record alone is skipped: the run goes on with no
\* error outcome, and every line written for the commit is the serialization
\* of one of the records handed to the printer so far.
C13_SerializationFailureLogged ==
  (pc = "emit" /\ Len(written) < fi - 1) =>
     /\ stderr # <<>>
     /\ result = "running" /\ fault = "none"
     /\ \A i \in 1..Len(written) :
          \E j \in 1..(fi - 1) : written[i] = to_string(flat[j])

\* number of events of the bag b that are in the set S
CountIn(b, S) == BagCardinality([e \in S |-> b[e]])

\* the record the events b delivered after the file event for path p amount to
ExpectedRecord(p, b) ==
  LET H == {e \in DOMAIN b : e.kind = "hunk"}
      L == {e \in DOMAIN b : e.kind = "line"}
  IN [path |-> p,
      lines_added |->
        CountIn(b, {e \in L : ~IsSome(e.old_lineno) /\ IsSome(e.new_lineno)}),
      lines_removed |->
        CountIn(b, {e \in L : IsSome(e.old_lineno) /\ ~IsSome(e.new_lineno)}),
      lines_modified |->
        CountIn(b, {e \in L : IsSome(e.old_lineno) /\ IsSome(e.new_lineno)}),
      hunks_added |-> CountIn(b, {e \in H : e.old_lines = 0}),
      hunks_removed |->
        CountIn(b, {e \in H : e.old_lines # 0 /\ e.new_lines = 0}),
      hunks_modified |->
        CountIn(b, {e \in H : e.old_lines # 0 /\ e.new_lines # 0})]

\* C14: the records extract_from_diff returns are, file event by file event,
\* the path of the file event with the numbers of hunk and line events of each
\* class delivered after it and before the next file event or the end of the
\* enumeration.
C14_CountersMatchEvents ==
  pc \in {"flatten", "emit"} =>
    my_commit.val.changes =
      [k \in 1..Len(deltas) |-> ExpectedRecord(deltas[k], tally[k])]

\* C15: frame of the callbacks of one enumeration.  A hunk or line event leaves
\* the list, the paths delivered and the open record's path as they were and
\* changes at most one counter of the open record; a file event appends the
\* record that was open, as it was, and nothing else; and every record in the
\* list stays in its place with all its fields.
C15_EventFrame ==
  [][(pc = "foreach" /\ pc' = "foreach") =>
       /\ (event'.kind \in {"hunk", "line"} /\ used' = used + 1) =>
            /\ files' = files
            /\ deltas' = deltas
            /\ x'.val.path = x.val.path
            /\ Cardinality({f \in CounterFields : x'.val[f] # x.val[f]}) <= 1
       /\ (event'.kind = "file" /\ used' = used + 1) =>
            files' = IF IsSome(x) THEN Append(files, x.val) ELSE files
       /\ Len(files') >= Len(files)
       /\ \A i \in 1..Len(files) : files'[i] = files[i]]_vars

\* a record with a counted hunk is in the list, and a line event has been
\* counted on the record opened after it
C15_Witness ==
  /\ pc = "foreach"
  /\ Len(files) = 1
  /\ files[1].hunks_added = 1
  /\ event.kind = "line" /\ IsSome(event.old_lineno)
  /\ IsSome(x) /\ x.val.lines_removed = 1

\* the serializations of the records of fl, in order
AllLines(fl) == [i \in 1..Len(fl) |-> to_string(fl[i])]

\* the lines of every record of the commits in ds, commit after commit
RECURSIVE AllLinesOf(_)
AllLinesOf(ds) ==
  IF ds = <<>> THEN <<>>
  ELSE AllLinesOf(SubSeq(ds, 1, Len(ds) - 1)) \o AllLines(ds[Len(ds)].flat)

\* a is b with some elements left out
RECURSIVE IsSubseq(_, _)
IsSubseq(a, b) ==
  IF a = <<>> THEN TRUE
  ELSE IF b = <<>> THEN FALSE
  ELSE IF Head(a) = Head(b) THEN IsSubseq(Tail(a), Tail(b))
  ELSE IsSubseq(a, Tail(b))

\* C16 as stated: in every reachable state standard output is a prefix of the
\* lines of all records of the commits processed so far, in order, and every
\* commit has none or all of the lines of its flat records.
C16_AtomicInEveryState ==
  /\ LET all == AllLinesOf(done) \o AllLines(flat)
     IN /\ Len(stdout) <= Len(all)
        /\ stdout = SubSeq(all, 1, Len(stdout))
  /\ \A k \in 1..Len(done) :
       Cardinality(LinesOf(OidToString(done[k].oid)))
         \in {0, Len(done[k].flat)}
  /\ IsSome(oid) =>
       Cardinality(LinesOf(OidToString(oid.val))) \in {0, Len(flat)}

\* C16, amended: in every reachable state in which no commit is in the middle
\* of being printed, the states after a fatal failure among them, standard
\* output is, commit after commit in the order of the walk, the lines of the
\* commit's flat records in order less those whose serialization failed, and
\* a commit that has not been processed to its end has no line: a failure
\* while resolving or diffing a commit leaves zero lines for it.
C16_AtomicBetweenCommits ==
  pc # "emit" =>
    /\ written = <<>>
    /\ stdout = LinesWritten(done)
    /\ \A k \in 1..Len(done) :
         /\ done[k].handed = Len(done[k].flat)
         /\ IsSubseq(done[k].written, AllLines(done[k].flat))
    /\ \A c \in Commits :
         (\A k \in 1..Len(done) : done[k].oid # c) =>
           LinesOf(OidToString(c)) = {}

\* a fatal failure stopped the run on a commit after lines of an earlier
\* commit were printed
C16_Witness ==
  /\ result \in {"Err", "Panic"}
  /\ fault \in {"find_commit", "find_tree", "parent", "diff", "foreach",
                "path", "no_open_record"}
  /\ stdout # <<>>
  /\ Len(yielded) = Len(done) + 1

\* C17: every run terminates.  The walker yields no identifier twice, so each
\* commit is processed at most once; a call to a collaborator is made once and
\* control leaves it whatever it returned; and the process eventually exits:
\* the walk completed, or the run stopped at its first fatal error.
C17_Terminates ==
  /\ [](\A i, j \in 1..Len(yielded) : yielded[i] = yielded[j] => i = j)
  /\ [][(pc \in {"clone", "push_head", "next", "find_commit", "find_tree",
                 "parent", "build"}) => pc' # pc]_vars
  /\ [](pc = "exited" => result \in {"Ok", "Err", "Panic"})
  /\ <>(pc = "exited")

\* the process has exited after the walk yielded every commit of the
\* repository
C17_Witness ==
  /\ pc = "exited"
  /\ result = "Ok"
  /\ Len(yielded) = Cardinality(Commits)
  /\ Len(done) = Len(yielded)

\* C18: between two callbacks of one enumeration the cell x is empty exactly
\* when no file event has been delivered yet, and then the list is empty too;
\* after the first file event x holds one record, its path is the path of the
\* latest file event, and the list and the open record together are as many
\* records as file events were delivered.
C18_OneSlotAccumulator ==
  pc = "foreach" =>
    /\ IsSome(x) <=> deltas # <<>>
    /\ ~IsSome(x) => files = <<>>
    /\ IsSome(x) =>
         /\ x.val.path = deltas[Len(deltas)]
         /\ Len(files) + 1 = Len(deltas)

\* three file events were delivered, the last two for different paths
C18_Witness ==
  /\ pc = "foreach"
  /\ Len(deltas) = 3
  /\ deltas[2] # deltas[3]
  /\ Len(files) = 2
  /\ IsSome(x) /\ x.val.path = deltas[3]

\* C19: a hunk event with no old-side and no new-side lines is counted as
\* added: hunks_added goes up by 1 and the record is otherwise as it was, so
\* neither hunks_removed nor hunks_modified changes.
C19_EmptyHunkIsAdded ==
  [][(/\ event'.kind = "hunk" /\ used' = used + 1
      /\ event'.old_lines = 0 /\ event'.new_lines = 0) =>
       /\ IsSome(x) /\ IsSome(x')
       /\ x'.val = [x.val EXCEPT !.hunks_added = x.val.hunks_added + 1]]_vars

\* a hunk with 0 old-side and 0 new-side lines was delivered to a record that
\* already had a removed hunk
C19_Witness ==
  /\ event.kind = "hunk" /\ event.old_lines = 0 /\ event.new_lines = 0
  /\ IsSome(x)
  /\ x.val.hunks_added = 1 /\ x.val.hunks_removed = 1

====
